---- MODULE Spec2Model ----
(***************************************************************************)
(* Resumable parallel batch processing of Neche-Stephen/feedback:          *)
(*   - csv-json/partition-extensions.js : the partition engine (worker     *)
(*     threads, ProgressTracker checkpoint in partition_progress.json);    *)
(*   - csv-json/drive-upload.js : the bulk uploader (concurrent async      *)
(*     tasks, boolean-flag mutex, checkpoint in upload-progress.json).     *)
(*                                                                         *)
(* Execution model.  Both programs run on the single-threaded Node.js      *)
(* event loop.  A synchronous code segment, together with the promise      *)
(* continuations (microtasks) it makes runnable, runs before the next      *)
(* event (macrotask: worker message/error/exit, I/O completion, timer).    *)
(* The main coroutine's synchronous segments are the actions guarded by a  *)
(* runnable value of pc; every event action is guarded by MainBlocked, so  *)
(* that no event is delivered while the main coroutine can still run.      *)
(* A message handler runs inside the event action that delivers it, up to  *)
(* its first real suspension (the writeFile of a periodic save).           *)
(* Time stamps (lastUpdate) and log output are not modelled.               *)
(***************************************************************************)
EXTENDS Integers, Sequences, FiniteSets, TLC

\* ------------------------------------------------------------------ constants of the programs

\* The programs' constants are scaled down so that a run has two rounds of two
\* batches of two files; the ratios the code depends on are kept (the periodic
\* save of markFileProcessed has the period of BATCH_SIZE).

\* BATCH_SIZE: number of files per worker batch (100 in the program).
BATCH_SIZE == 2
\* MAX_WORKERS: number of concurrent workers (cpus - 1, at least 1, in the program).
MAX_WORKERS == 2
\* Period of the save in markFileProcessed: processedFiles.length % 100 === 0.
SAVE_EVERY == 2
\* MAX_CONCURRENT_UPLOADS: uploads per batch of the bulk uploader (30 in the program).
MAX_CONCURRENT_UPLOADS == 2

\* ------------------------------------------------------------------ bounds

\* Number of runs of the program in one behaviour (first run plus resumptions).
MaxRuns == 2
\* Number of environment faults (failed file of a batch, failed worker, failed
\* read or write of the checkpoint, failed mkdir, failed upload) injected in one
\* behaviour.
MaxFaults == 1
\* Largest number of files, batch size and worker count of the runs in which the
\* batch assignment is checked for every configuration.
MaxN == 7
MaxB == 3
MaxW == 3
\* Number of rows of the CSV file of the converter.
NumRows == 3

\* One more file than one round holds, so that a run has two rounds.
NumFiles == BATCH_SIZE * MAX_WORKERS + 1
\* One more file than a round and a batch hold, so that the second round has a
\* full and a partial batch.
WideFiles == BATCH_SIZE * MAX_WORKERS + BATCH_SIZE + 1
\* One more file than one upload batch holds, so that a run has two batches.
NumUploadFiles == MAX_CONCURRENT_UPLOADS + 1

\* ------------------------------------------------------------------ names

\* A file is the sequence of what it holds: empty when the file does not exist,
\* else the one parsed JSON value.
NoFile == <<>>
File(content) == <<content>>
Content(file) == file[1]

\* A file name is a sequence of characters followed by its extension token:
\* "ab3.json" is <<"a", "b", "3", ".json">>.
Letters == <<"a", "b">>

FileName(n) ==
  << Letters[(((n - 1) \div 2) % 2) + 1], Letters[((n - 1) % 2) + 1], ToString(n), ".json" >>

\* ------------------------------------------------------------------ helpers

Includes(list, x) == \E k \in DOMAIN list : list[k] = x

Range(list) == {list[k] : k \in DOMAIN list}

Min(a, b) == IF a < b THEN a ELSE b

\* path.extname(file).toLowerCase()
ToLowerCase(tok) == IF tok = ".JSON" THEN ".json" ELSE tok

ExtName(file) == IF Len(file) > 1 THEN file[Len(file)] ELSE ""

\* path.basename(file, '.json')
Basename(file, ext) ==
  IF Len(file) > 1 /\ file[Len(file)] = ext THEN SubSeq(file, 1, Len(file) - 1) ELSE file

\* Variant: the first two characters in the other order.
SubstringSwapped(id) == IF Len(id) >= 2 THEN <<id[2], id[1]>> ELSE id

\* extensionId.substring(0, 2)
Substring02(id) == SubSeq(id, 1, Min(2, Len(id)))

\* chars of createBinDirectories (a..p in the program).
chars == Letters

\* The prefixes createBinDirectories goes through, in its order.
BinOrder ==
  [k \in 1..(Len(chars) * Len(chars)) |->
     << chars[((k - 1) \div Len(chars)) + 1], chars[((k - 1) % Len(chars)) + 1] >>]

AllBins == Range(BinOrder)

\* Paths relative to targetBaseDir: <<>> is targetBaseDir itself, <<"..">> its
\* parent (the working directory).
BaseDir == <<>>
ParentDir == <<"..">>

\* path.join(targetBaseDir, bin) normalises the path: the segment "." is
\* dropped and the segment ".." leads to the parent.
JoinBase(bin) ==
  CASE bin = <<".">> -> BaseDir
    [] bin = <<".", ".">> -> ParentDir
    [] OTHER -> bin

\* targetBaseDir and the first m prefixes.
Created(m) == {BaseDir} \cup {BinOrder[k] : k \in 1..m}

\* ------------------------------------------------------------------ state

VARIABLES
  prog,           \* which script runs: "partition" or "upload"
  nfiles,         \* number of JSON files in the source directory
  sourceExists,   \* fs.existsSync(sourceDir)
  cfg,            \* [B, W]: BATCH_SIZE and MAX_WORKERS of this process
  oddFiles,       \* further entries of the source directory
  rows,           \* results.data of the converter: the id of each row ("": none)
  dirs,           \* directories that exist, as paths relative to targetBaseDir
  run,            \* number of the current run (1 = first run)
  faults,         \* environment faults injected so far
  injected,       \* kinds of fault injected in the current run
  pc,             \* position of the main coroutine
  \* --- partition engine
  disk,           \* partition_progress.json: NoFile or a progress record
  progress,       \* in-memory progress record
  filesToProcess, \* list computed by the diff
  i,              \* loop variable of the round loop
  processed,      \* success counter
  errors,         \* failure counter
  binSizes,       \* bin -> count
  workers,        \* startIdx -> [st, fileBatch, failing, results, k]
  writes,         \* writeFile calls in flight: [main, owner, snap]
  \* --- bulk uploader
  udisk,          \* upload-progress.json: NoFile or [completedFiles]
  uprogress,      \* shared progress object
  filesToUpload,  \* list computed by the diff
  tasks,          \* file index -> position of its processAndUploadFile call
  \* --- CSV-to-JSON converter
  cdisk,          \* conversion-progress.json
  processedIds,   \* ids of the rows written
  lastProcessedIndex,
  processedThisRun,
  failedRows,     \* history: indices of the rows whose write failed in this run
  \* --- history
  doneRound,      \* file -> round of this run that merged its success (0: none)
  savedRounds,    \* rounds of this run after which the main coroutine called save
  prev            \* what the previous run left behind

pvars == <<disk, progress, filesToProcess, i, processed, errors, binSizes, workers, writes>>
uvars == <<udisk, uprogress, filesToUpload, tasks>>
\* What the run finds and never changes.
env == <<prog, nfiles, sourceExists, cfg, oddFiles, rows>>
cvars == <<cdisk, processedIds, lastProcessedIndex, processedThisRun, failedRows>>
vars == <<env, dirs, cvars, run, faults, injected, pc, pvars, uvars, doneRound, savedRounds, prev>>

\* readdir(sourceDir): the JSON files and one file of another type.
DirListing ==
  [n \in 1..nfiles |-> FileName(n)] \o oddFiles \o << <<"n", "o", "t", "e", ".txt">> >>

\* ------------------------------------------------------------------ ProgressTracker

\* Default progress state of ProgressTracker.load.
DefaultProgress ==
  [binsCreated |-> FALSE, processedFiles |-> <<>>, binSizesCalculated |-> FALSE]

\* A checkpoint file that parses and has no processedFiles list.
PartialCheckpoint == [binsCreated |-> TRUE, binSizesCalculated |-> FALSE]

\* progress.processedFiles is undefined.
NoList(p) == "processedFiles" \notin DOMAIN p

\* The ids a progress record holds.
Ids(p) == IF NoList(p) THEN {} ELSE Range(p.processedFiles)

\* Variant: a failed read gives what the file held.
loadKeeping(file, readOk) == IF file # NoFile THEN Content(file) ELSE DefaultProgress

\* ProgressTracker.load: the parsed file when it exists and is read and parsed
\* without error, the default state otherwise.
load(file, readOk) == IF file # NoFile /\ readOk THEN Content(file) ELSE DefaultProgress

\* Variant: looks the extension id up instead of the file name.
isFileProcessedById(p, filename) == Includes(p.processedFiles, Basename(filename, ".json"))

\* ProgressTracker.isFileProcessed
isFileProcessed(p, filename) == Includes(p.processedFiles, filename)

\* Variant: the list is replaced by the new name instead of extended.
PushReplacing(list, filename) == <<filename>>

\* Variant: the name is pushed twice.
PushTwice(list, filename) == Append(Append(list, filename), filename)

\* The push of ProgressTracker.markFileProcessed.
Push(list, filename) == Append(list, filename)

\* Variant: the name is not recorded.
markFileProcessedForgetting(p, filename) == [progress |-> p, save |-> FALSE]

\* ProgressTracker.markFileProcessed: the new progress record, and whether the
\* periodic save is started.
markFileProcessed(p, filename) ==
  IF ~Includes(p.processedFiles, filename)
  THEN LET q == [p EXCEPT !.processedFiles = Push(@, filename)]
       IN [progress |-> q, save |-> Len(q.processedFiles) % SAVE_EVERY = 0]
  ELSE [progress |-> p, save |-> FALSE]

\* ------------------------------------------------------------------ worker thread

\* Variant: a failed copy is reported as a success.
FileResultSucceeding(file, fails) ==
  [file |-> file, success |-> TRUE, bin |-> Substring02(Basename(file, ".json"))]

\* Result of one file in workerProcess: failed when the source is missing or the
\* copy throws, else success with the bin of the extension id.
FileResult(file, fails) ==
  IF fails
  THEN [file |-> file, success |-> FALSE, bin |-> <<>>]
  ELSE [file |-> file, success |-> TRUE, bin |-> Substring02(Basename(file, ".json"))]

\* Variant: one try around the whole loop, so that the first failure fails the
\* rest of the batch.
workerProcessAborting(fileBatch, failing) ==
  [k \in 1..Len(fileBatch) |->
     FileResult(fileBatch[k], \E j \in 1..k : fileBatch[j] \in failing)]

\* Variant: the results are posted in the reverse order of the batch.
workerProcessReversed(fileBatch, failing) ==
  [k \in 1..Len(fileBatch) |->
     FileResult(fileBatch[Len(fileBatch) + 1 - k],
                fileBatch[Len(fileBatch) + 1 - k] \in failing)]

\* workerProcess: fileBatch.map(...), one result per file, in order.
workerProcess(fileBatch, failing) ==
  [k \in 1..Len(fileBatch) |-> FileResult(fileBatch[k], fileBatch[k] \in failing)]

\* ------------------------------------------------------------------ scheduling

\* jsonFiles: files.filter(extname(file).toLowerCase() === '.json')
jsonFiles == SelectSeq(DirListing, LAMBDA f : ToLowerCase(ExtName(f)) = ".json")

\* filesToProcess: jsonFiles.filter(file => !isFileProcessed(progress, file))
Remaining(p) == SelectSeq(jsonFiles, LAMBDA f : ~isFileProcessed(p, f))

RoundSize == cfg.B * cfg.W

\* Variant: the workers of a round start one file apart.
RoundStartsOverlapping(ii, n) ==
  {ii + w : w \in {v \in 0..(cfg.W - 1) : ii + (v * cfg.B) < n}}

\* startIdx of the workers the round at loop index ii creates.
RoundStarts(ii, n) ==
  {ii + (w * cfg.B) : w \in {v \in 0..(cfg.W - 1) : ii + (v * cfg.B) < n}}

\* filesToProcess.slice(startIdx, endIdx)
Slice(list, startIdx, endIdx) == SubSeq(list, startIdx + 1, endIdx)

\* Variant: a batch takes one file more than BATCH_SIZE.
FileBatchOverlapping(list, startIdx) ==
  Slice(list, startIdx, Min(startIdx + cfg.B + 1, Len(list)))

FileBatch(list, startIdx) ==
  Slice(list, startIdx, Min(startIdx + cfg.B, Len(list)))

\* Round number (1, 2, ...) of the worker created for startIdx.
RoundOf(startIdx) == (startIdx \div RoundSize) + 1

\* ------------------------------------------------------------------ promises

Resolved(st) == st \in {"done", "failedResolved"}
Rejected(st) == st \in {"errored", "exited"}
Settled(st) == Resolved(st) \/ Rejected(st)

\* Workers whose promises the main coroutine passed to the Promise.all of the
\* round at loop index ii.
RoundWorkers(ws, ii) == {s \in DOMAIN ws : ii <= s /\ s < ii + RoundSize}

\* Promise.all(workerPromises): rejects with the first rejection, resolves when
\* every promise has resolved.
AllRejected(ws, ii) == \E s \in RoundWorkers(ws, ii) : Rejected(ws[s].st)
AllResolved(ws, ii) == \A s \in RoundWorkers(ws, ii) : Resolved(ws[s].st)

\* Position of the main coroutine after an event changed the workers to ws.
AfterSettle(ws) ==
  IF pc = "await"
  THEN IF AllRejected(ws, i) THEN "catch"
       ELSE IF AllResolved(ws, i) THEN "afterAll" ELSE "await"
  ELSE pc

MainBlocked ==
  pc \in {"await", "saving", "finalsaving", "calcio", "calcsaving", "done", "exit1",
          "uawait", "ufailed", "udone"}

\* ------------------------------------------------------------------ message handler

\* Variant: the count of a bin is set to one.
BumpBinReplacing(sizes, bin) == (bin :> 1) @@ sizes

\* binSizes[result.bin]++ (created at 0 when absent)
BumpBin(sizes, bin) ==
  IF bin \in DOMAIN sizes THEN [sizes EXCEPT ![bin] = @ + 1] ELSE (bin :> 1) @@ sizes

\* Variant: a success counts twice.
CountSuccessTwice(n) == n + 2

\* What one success adds to the success counter.
CountSuccess(n) == n + 1

\* The loop 'for (const result of results)' of the message handler from result
\* k on, on the shared state acc = [progress, processed, errors, binSizes]; it
\* runs until the results are exhausted or markFileProcessed starts a save.
RECURSIVE MergeResults(_, _, _)
MergeResults(results, k, acc) ==
  IF k > Len(results)
  THEN [acc |-> acc, k |-> k, saving |-> FALSE]
  ELSE LET result == results[k] IN
       IF result.success
       THEN LET m == markFileProcessed(acc.progress, result.file)
                nacc == [progress |-> m.progress,
                         processed |-> CountSuccess(acc.processed),
                         errors |-> acc.errors,
                         binSizes |-> BumpBin(acc.binSizes, result.bin)]
            IN IF m.save
               THEN [acc |-> nacc, k |-> k + 1, saving |-> TRUE]
               ELSE MergeResults(results, k + 1, nacc)
       ELSE MergeResults(results, k + 1, [acc EXCEPT !.errors = @ + 1])

Shared == [progress |-> progress, processed |-> processed, errors |-> errors,
           binSizes |-> binSizes]

\* Files whose success the step from progress to q merged.
Merged(q) == Ids(q) \ Ids(progress)

\* The main coroutine is not (or no longer) waiting for the round of worker s:
\* the Promise.all of that round has rejected and the loop has gone on.
Abandoned(s) == ~(pc = "await" /\ s \in RoundWorkers(workers, i))

\* The handler of worker s runs from result k on (on delivery of its message or
\* after its periodic save returned); failing are the files of the batch whose
\* copy failed in the worker, pending the other writes in flight.  The field
\* late records that the handler ran when the round was abandoned.
RunHandler(s, failing, results, k, pending) ==
  LET m == MergeResults(results, k, Shared)
      ws == [workers EXCEPT ![s] = [@ EXCEPT !.st = IF m.saving THEN "merging" ELSE "done",
                                             !.failing = failing, !.results = results, !.k = m.k,
                                             !.late = @ \/ Abandoned(s)]]
  IN /\ progress' = m.acc.progress
     /\ processed' = m.acc.processed
     /\ errors' = m.acc.errors
     /\ binSizes' = m.acc.binSizes
     /\ workers' = ws
     /\ writes' = IF m.saving
                  THEN pending \cup {[main |-> FALSE, owner |-> s, snap |-> m.acc.progress]}
                  ELSE pending
     /\ doneRound' = [f \in DOMAIN doneRound |->
                        IF f \in Merged(m.acc.progress) THEN RoundOf(s) ELSE doneRound[f]]
     /\ pc' = AfterSettle(ws)

\* ------------------------------------------------------------------ initial state

NoProgress == [uploaded |-> 0, failed |-> 0, total |-> 0, completedFiles |-> <<>>,
               mutex |-> FALSE]

NoHistory == [disk |-> {}, completed |-> {}, clean |-> FALSE, beforeSave |-> FALSE,
              earlier |-> {}, merged |-> {}, injected |-> {}, notSucceeded |-> {},
              saved |-> {}]

\* The state after the process started: script p, n JSON files in the source
\* directory, which exists or not, checkpoint file d, and the constants c the
\* module computed (MAX_WORKERS from the number of cpus).
InitRows(p, n, odd, r, exists, d, c) ==
  /\ prog = p
  /\ nfiles = n
  /\ oddFiles = odd
  /\ rows = r
  /\ cdisk = NoFile
  /\ processedIds = <<>>
  /\ lastProcessedIndex = -1
  /\ processedThisRun = 0
  /\ failedRows = {}
  /\ sourceExists = exists
  /\ cfg = c
  /\ dirs = {ParentDir}
  /\ run = 1
  /\ faults = 0
  /\ injected = {}
  /\ pc = CASE prog = "partition" -> "load"
            [] prog = "upload" -> "uload"
            [] OTHER -> "cload"
  /\ disk = IF p = "partition" THEN d ELSE NoFile
  /\ progress = DefaultProgress
  /\ filesToProcess = <<>>
  /\ i = 0
  /\ processed = 0
  /\ errors = 0
  /\ binSizes = <<>>
  /\ workers = <<>>
  /\ writes = {}
  /\ udisk = IF p = "upload" THEN d ELSE NoFile
  /\ uprogress = NoProgress
  /\ filesToUpload = <<>>
  /\ tasks = <<>>
  /\ doneRound = [f \in Range(jsonFiles) |-> 0]
  /\ savedRounds = {}
  /\ prev = NoHistory

InitDir(p, n, odd, exists, d, c) == InitRows(p, n, odd, <<>>, exists, d, c)

InitCfg(p, n, exists, d, c) == InitDir(p, n, <<>>, exists, d, c)

InitWith(p, n, exists, d) ==
  InitCfg(p, n, exists, d, [B |-> BATCH_SIZE, W |-> MAX_WORKERS])

\* Either script starts; the partition engine finds its source directory or
\* not, and no checkpoint file or one without the list.
Init ==
  \/ InitWith("upload", NumFiles, TRUE, NoFile)
  \/ \E exists \in BOOLEAN : \E d \in {NoFile, File(PartialCheckpoint)} :
       InitWith("partition", NumFiles, exists, d)

Fault(kind, n) ==
  /\ faults + n <= MaxFaults
  /\ faults' = faults + n
  /\ injected' = IF n > 0 THEN injected \cup {kind} ELSE injected

\* ------------------------------------------------------------------ partition engine: main

\* main: progress = await ProgressTracker.load()
Load(readOk) ==
  /\ pc = "load"
  /\ readOk \/ disk # NoFile
  /\ Fault("load", IF readOk THEN 0 ELSE 1)
  /\ progress' = load(disk, readOk)
  /\ pc' = "bins"
  /\ UNCHANGED <<env, dirs, cvars, run, disk, filesToProcess, i, processed, errors, binSizes,
                 workers, writes, uvars, doneRound, prev, savedRounds>>

\* main: await createBinDirectories(); a failed mkdir throws into the catch
\* of main, which ends the process with process.exit(1).
CreateBinDirectories(ok) ==
  /\ pc = "bins"
  /\ Fault("mkdir", IF ok THEN 0 ELSE 1)
  /\ IF ok
     THEN dirs' = dirs \cup Created(Len(BinOrder))
     ELSE \/ dirs' = dirs
          \/ \E m \in 0..(Len(BinOrder) - 1) : dirs' = dirs \cup Created(m)
  /\ pc' = IF ok THEN "diff" ELSE "exit1"
  /\ UNCHANGED <<env, cvars, run, pvars, uvars, doneRound, prev, savedRounds>>

\* partitionExtensionFiles throws before its loop: the source directory does
\* not exist, or progress.processedFiles is undefined in isFileProcessed.
DiffThrows == ~sourceExists \/ NoList(progress)

\* partitionExtensionFiles: the existence test, readdir, the two filters, the
\* early return and the initialisation of the counters; what is thrown there is
\* caught at the end of the function, which returns to main.
Diff ==
  /\ pc = "diff"
  /\ filesToProcess' = IF DiffThrows THEN filesToProcess ELSE Remaining(progress)
  /\ i' = 0
  /\ processed' = 0
  /\ errors' = 0
  /\ binSizes' = <<>>
  /\ pc' = IF DiffThrows \/ Len(filesToProcess') = 0 THEN "calc" ELSE "spawn"
  /\ UNCHANGED <<env, dirs, cvars, run, faults, injected, disk, progress, workers, writes, uvars,
                 doneRound, prev, savedRounds>>

NewWorker(fileBatch) ==
  [st |-> "running", fileBatch |-> fileBatch, failing |-> {}, results |-> <<>>, k |-> 0,
   late |-> FALSE]

\* The inner for loop: one worker per batch of the round at i, then
\* await Promise.all(workerPromises).
Spawn ==
  /\ pc = "spawn"
  /\ workers' = [s \in RoundStarts(i, Len(filesToProcess)) |->
                   NewWorker(FileBatch(filesToProcess, s))] @@ workers
  /\ pc' = "await"
  /\ UNCHANGED <<env, dirs, cvars, run, faults, injected, disk, progress, filesToProcess, i, processed,
                 errors, binSizes, writes, uvars, doneRound, prev, savedRounds>>

\* After Promise.all resolved: await ProgressTracker.save(progress); the content
\* is serialised when writeFile is called.
RoundSave ==
  /\ pc = "afterAll"
  /\ writes' = writes \cup {[main |-> TRUE, owner |-> 0, snap |-> progress]}
  /\ savedRounds' = savedRounds \cup {RoundOf(i)}
  /\ pc' = "saving"
  /\ UNCHANGED <<env, dirs, cvars, run, faults, injected, disk, progress, filesToProcess, i, processed,
                 errors, binSizes, workers, uvars, doneRound, prev>>

\* Variant: the catch leaves the loop.
CatchReturning ==
  /\ pc = "catch"
  /\ pc' = "calc"
  /\ UNCHANGED <<env, dirs, cvars, run, faults, injected, pvars, uvars, doneRound, prev, savedRounds>>

\* After Promise.all rejected: catch (err) { log; continue with next batch }.
Catch ==
  /\ pc = "catch"
  /\ pc' = "next"
  /\ UNCHANGED <<env, dirs, cvars, run, faults, injected, pvars, uvars, doneRound, prev, savedRounds>>

\* i += BATCH_SIZE * MAX_WORKERS and the loop test.
NextRound ==
  /\ pc = "next"
  /\ i' = i + RoundSize
  /\ pc' = IF i' < Len(filesToProcess) THEN "spawn" ELSE "finalsave"
  /\ UNCHANGED <<env, dirs, cvars, run, faults, injected, disk, progress, filesToProcess, processed,
                 errors, binSizes, workers, writes, uvars, doneRound, prev, savedRounds>>

\* Final progress save.
FinalSave ==
  /\ pc = "finalsave"
  /\ writes' = writes \cup {[main |-> TRUE, owner |-> 0, snap |-> progress]}
  /\ pc' = "finalsaving"
  /\ UNCHANGED <<env, dirs, cvars, run, faults, injected, disk, progress, filesToProcess, i, processed,
                 errors, binSizes, workers, uvars, doneRound, prev, savedRounds>>

\* calculateBinSizes: skipped when already calculated, else reads the bins.
CalcBegin ==
  /\ pc = "calc"
  /\ pc' = IF progress.binSizesCalculated THEN "done" ELSE "calcio"
  /\ UNCHANGED <<env, dirs, cvars, run, faults, injected, pvars, uvars, doneRound, prev, savedRounds>>

\* calculateBinSizes: the reads returned; binSizesCalculated = true and save, or
\* the catch when a read threw.
CalcEnd(ok) ==
  /\ pc = "calcio"
  /\ Fault("calc", IF ok THEN 0 ELSE 1)
  /\ progress' = IF ok THEN [progress EXCEPT !.binSizesCalculated = TRUE] ELSE progress
  /\ writes' = IF ok THEN writes \cup {[main |-> TRUE, owner |-> 0, snap |-> progress']} ELSE writes
  /\ pc' = IF ok THEN "calcsaving" ELSE "done"
  /\ UNCHANGED <<env, dirs, cvars, run, disk, filesToProcess, i, processed, errors, binSizes, workers,
                 uvars, doneRound, prev, savedRounds>>

\* ------------------------------------------------------------------ partition engine: events

Running(s) == s \in DOMAIN workers /\ workers[s].st = "running"

\* Files of a batch whose copy throws because the directory of the target
\* path does not exist.
NoTargetDir(fileBatch) ==
  {f \in Range(fileBatch) : JoinBase(Substring02(Basename(f, ".json"))) \notin dirs}

\* worker.on('message') with the results array.
WorkerMessage(s, failing) ==
  /\ MainBlocked
  /\ Running(s)
  /\ failing \subseteq Range(workers[s].fileBatch)
  /\ Fault("item", Cardinality(failing))
  /\ RunHandler(s, failing \cup NoTargetDir(workers[s].fileBatch),
                workerProcess(workers[s].fileBatch,
                              failing \cup NoTargetDir(workers[s].fileBatch)), 1, writes)
  /\ UNCHANGED <<env, dirs, cvars, run, disk, filesToProcess, i, uvars, prev, savedRounds>>

\* errors += fileBatch.length of the message handler's error branch.
ErrorsOnPostedError(e, fileBatch) == e + Len(fileBatch)

\* errors += fileBatch.length of worker.on('error').
ErrorsOnErrorEvent(e, fileBatch) == e + Len(fileBatch)

\* worker.on('exit') leaves the counter alone.
ErrorsOnExit(e, fileBatch) == e

WorkerFails(s, st, e) ==
  LET ws == [workers EXCEPT ![s].st = st]
  IN /\ MainBlocked
     /\ workers' = ws
     /\ errors' = e
     /\ pc' = AfterSettle(ws)
     /\ UNCHANGED <<env, dirs, cvars, run, disk, progress, filesToProcess, i, processed, binSizes,
                    writes, uvars, doneRound, prev, savedRounds>>

\* worker.on('message') with an error object: count the batch, resolve.
WorkerPostsError(s) ==
  /\ Running(s)
  /\ Fault("worker", 1)
  /\ WorkerFails(s, "failedResolved", ErrorsOnPostedError(errors, workers[s].fileBatch))

\* worker.on('error'): count the batch, reject.
WorkerError(s) ==
  /\ Running(s)
  /\ Fault("worker", 1)
  /\ WorkerFails(s, "errored", ErrorsOnErrorEvent(errors, workers[s].fileBatch))

\* worker.on('exit') with a non-zero code: reject.  It follows an 'error' event,
\* or comes alone when the thread exits by itself (process.exit, terminate).
WorkerExit(s) ==
  /\ s \in DOMAIN workers
  /\ workers[s].st \in {"running", "errored"}
  /\ Fault("worker", IF workers[s].st = "running" THEN 1 ELSE 0)
  /\ WorkerFails(s, "exited", ErrorsOnExit(errors, workers[s].fileBatch))

\* What a completed writeFile leaves in the file.
Written(file, snap, ok) == IF ok THEN File(snap) ELSE file

\* The writeFile of a save of the main coroutine returns (an error is caught and
\* logged by ProgressTracker.save).
\* A variant of the continuation in which the error of a failed write is rethrown.
AfterSaveThrowing(at, ok) ==
  IF ok
  THEN CASE at = "saving" -> "next"
         [] at = "finalsaving" -> "calc"
         [] at = "calcsaving" -> "done"
         [] at = "usave" -> "unext"
         [] OTHER -> at
  ELSE IF at = "usave" THEN "ufailed" ELSE "exit1"

\* Where the caller goes on after `await progressTracker.save(...)` or
\* `await saveProgress(...)` returns: both functions catch the error of the
\* write and only log it, so the continuation does not depend on ok.
AfterSave(at, ok) ==
  CASE at = "saving" -> "next"
    [] at = "finalsaving" -> "calc"
    [] at = "calcsaving" -> "done"
    [] at = "usave" -> "unext"
    [] OTHER -> at

MainWriteDone(w, ok) ==
  /\ MainBlocked
  /\ w \in writes
  /\ w.main
  /\ Fault("write", IF ok THEN 0 ELSE 1)
  /\ disk' = Written(disk, w.snap, ok)
  /\ writes' = writes \ {w}
  /\ pc' = AfterSave(pc, ok)
  /\ UNCHANGED <<env, dirs, cvars, run, progress, filesToProcess, i, processed, errors, binSizes,
                 workers, uvars, doneRound, prev, savedRounds>>

\* The writeFile of the periodic save of markFileProcessed returns and the
\* message handler goes on with its next result.
HandlerWriteDone(w, ok) ==
  /\ MainBlocked
  /\ w \in writes
  /\ ~w.main
  /\ Fault("write", IF ok THEN 0 ELSE 1)
  /\ disk' = Written(disk, w.snap, ok)
  /\ RunHandler(w.owner, workers[w.owner].failing, workers[w.owner].results,
                workers[w.owner].k, writes \ {w})
  /\ UNCHANGED <<env, dirs, cvars, run, filesToProcess, i, uvars, prev, savedRounds>>

\* ------------------------------------------------------------------ runs

PartitionCandidates == Range(jsonFiles)

\* Ids in the checkpoint file of the partition engine.
PartitionDiskIds == IF disk = NoFile THEN {} ELSE Ids(Content(disk))

\* Number of the round the main coroutine is in.
CurrentRound == RoundOf(i)

\* Every worker of the round at i has reported its results or failed.
AllReported ==
  /\ RoundWorkers(workers, i) # {}
  /\ \A s \in RoundWorkers(workers, i) : Settled(workers[s].st)

\* The workers of the current round have reported and the save of this round
\* has not returned.
BeforeRoundSave == prog = "partition" /\ pc \in {"afterAll", "saving", "catch"} /\ AllReported

\* Files whose success a round before the current one merged.
EarlierRounds == {f \in DOMAIN doneRound : doneRound[f] > 0 /\ doneRound[f] < CurrentRound}

PartitionEnded ==
  /\ pc \in {"done", "exit1"}
  /\ writes = {}
  /\ \A s \in DOMAIN workers : Settled(workers[s].st)
\* ------------------------------------------------------------------ bulk uploader

directoryName == "extension-dir"

\* A path is the sequence of its directory, the stem of the file name and its
\* extension: "extension-dir/3.json" is <<"extension-dir", "3", ".json">>.
UploadListing ==
  [n \in 1..NumUploadFiles |-> <<directoryName, ToString(n), ".json">>]
    \o << <<directoryName, "readme", ".md">> >>

\* fullPath.endsWith('.json')
EndsWith(path, ext) == Len(path) > 0 /\ path[Len(path)] = ext

\* getFilesRecursively(directoryName)
getFilesRecursively == SelectSeq(UploadListing, LAMBDA f : EndsWith(f, ".json"))

\* path.relative(directoryName, filePath)
Relative(dir, filePath) ==
  IF Len(filePath) > 0 /\ filePath[1] = dir THEN Tail(filePath) ELSE filePath

\* completedFiles after the load block of uploadDirectoryWithTransferManager.
LoadCompleted(file, readOk) ==
  IF file # NoFile /\ readOk THEN Content(file).completedFiles ELSE <<>>

\* filesToUpload: allFiles.filter(p => !completedFiles.includes(relative(p)))
ToUpload(completedFiles) ==
  SelectSeq(getFilesRecursively,
            LAMBDA f : ~Includes(completedFiles, Relative(directoryName, f)))

\* Indices (1-based) of filesToUpload.slice(ii, ii + MAX_CONCURRENT_UPLOADS).
BatchTasks(ii, n) == (ii + 1)..Min(ii + MAX_CONCURRENT_UPLOADS, n)

\* The update function of the success path of processAndUploadFile.
UpdateUploaded(p, relativePath) ==
  [p EXCEPT !.completedFiles = IF ~Includes(@, relativePath) THEN Append(@, relativePath) ELSE @,
            !.uploaded = @ + 1]

\* Variant: the failure is not counted.
UpdateFailedLost(p, relativePath) == p

\* The update function of the catch of processAndUploadFile.
UpdateFailed(p, relativePath) == [p EXCEPT !.failed = @ + 1]

\* Variant: the mutex is taken without the test.
MutexFreeUnchecked(p) == TRUE

\* The test of 'while (progress.mutex)' of updateProgressAtomic.
MutexFree(p) == ~p.mutex

\* Variant: the main coroutine goes on to the save as soon as one task of the
\* batch has resolved.
UAfterSettleEager(ts) ==
  IF pc = "uawait"
  THEN IF \E t \in BatchTasks(i, Len(filesToUpload)) : ts[t] = "resolved" THEN "usave"
       ELSE IF \E t \in BatchTasks(i, Len(filesToUpload)) : ts[t] = "rejected" THEN "ufailed"
       ELSE "uawait"
  ELSE pc

\* Promise.all(uploadPromises) seen by the main coroutine once the tasks are ts.
UAfterSettle(ts) ==
  IF pc = "uawait"
  THEN IF \E t \in BatchTasks(i, Len(filesToUpload)) : ts[t] = "rejected" THEN "ufailed"
       ELSE IF \A t \in BatchTasks(i, Len(filesToUpload)) : ts[t] = "resolved" THEN "usave"
       ELSE "uawait"
  ELSE pc

\* Load progress from file if it exists.
ULoad(readOk) ==
  /\ pc = "uload"
  /\ readOk \/ udisk # NoFile
  /\ Fault("load", IF readOk THEN 0 ELSE 1)
  /\ uprogress' = [uprogress EXCEPT !.completedFiles = LoadCompleted(udisk, readOk)]
  /\ pc' = "udiff"
  /\ UNCHANGED <<env, dirs, cvars, run, pvars, udisk, filesToUpload, tasks, doneRound, prev, savedRounds>>

\* The list of all files, the filter and the shared progress object.
UDiff ==
  /\ pc = "udiff"
  /\ filesToUpload' = ToUpload(uprogress.completedFiles)
  /\ uprogress' = [uploaded |-> 0, failed |-> 0, total |-> Len(filesToUpload'),
                   completedFiles |-> uprogress.completedFiles, mutex |-> FALSE]
  /\ i' = 0
  /\ pc' = IF 0 < Len(filesToUpload') THEN "ubatch" ELSE "udone"
  /\ UNCHANGED <<env, dirs, cvars, run, faults, injected, disk, progress, filesToProcess, processed,
                 errors, binSizes, workers, writes, udisk, tasks, doneRound, prev, savedRounds>>

\* batch.map(filePath => processAndUploadFile(filePath, progress)): every task
\* runs to its readFile; then await Promise.all(uploadPromises).
UBatch ==
  /\ pc = "ubatch"
  /\ tasks' = [t \in BatchTasks(i, Len(filesToUpload)) |-> "reading"] @@ tasks
  /\ pc' = "uawait"
  /\ UNCHANGED <<env, dirs, cvars, run, faults, injected, pvars, udisk, uprogress, filesToUpload,
                 doneRound, prev, savedRounds>>

\* Number (1, 2, ...) of the batch of the loop index ii.
UBatchOf(ii) == (ii \div MAX_CONCURRENT_UPLOADS) + 1

\* saveProgress(progress.completedFiles): writeFileSync, an error is caught.
USave(ok) ==
  /\ pc = "usave"
  /\ Fault("write", IF ok THEN 0 ELSE 1)
  /\ udisk' = Written(udisk, [completedFiles |-> uprogress.completedFiles], ok)
  /\ savedRounds' = savedRounds \cup {UBatchOf(i)}
  /\ pc' = AfterSave(pc, ok)
  /\ UNCHANGED <<env, dirs, cvars, run, pvars, uprogress, filesToUpload, tasks, doneRound, prev>>

\* i += MAX_CONCURRENT_UPLOADS and the loop test.
UNextBatch ==
  /\ pc = "unext"
  /\ i' = i + MAX_CONCURRENT_UPLOADS
  /\ pc' = IF i' < Len(filesToUpload) THEN "ubatch" ELSE "udone"
  /\ UNCHANGED <<env, dirs, cvars, run, faults, injected, disk, progress, filesToProcess, processed,
                 errors, binSizes, workers, writes, uvars, doneRound, prev, savedRounds>>

RelativeOf(t) == Relative(directoryName, filesToUpload[t])

\* updateProgressAtomic(progress, updateFn) from its while test on: the task
\* sleeps 10 ms when the mutex is taken; else it takes the mutex and calls
\* updateFn, whose body has no await and runs at once.
EnterAtomic(t, kind) ==
  IF MutexFree(uprogress)
  THEN /\ uprogress' = IF kind = "Ok"
                       THEN UpdateUploaded([uprogress EXCEPT !.mutex = TRUE], RelativeOf(t))
                       ELSE UpdateFailed([uprogress EXCEPT !.mutex = TRUE], RelativeOf(t))
       /\ tasks' = [tasks EXCEPT ![t] = "held" \o kind]
  ELSE /\ uprogress' = uprogress
       /\ tasks' = [tasks EXCEPT ![t] = "wait" \o kind]

TaskAt(t, sts) == t \in DOMAIN tasks /\ tasks[t] \in sts

\* readFile returned and JSON.parse ran: on to the upload, or into the catch.
ReadDone(t, ok) ==
  /\ MainBlocked
  /\ TaskAt(t, {"reading"})
  /\ Fault("item", IF ok THEN 0 ELSE 1)
  /\ IF ok
     THEN tasks' = [tasks EXCEPT ![t] = "uploading"] /\ uprogress' = uprogress
     ELSE EnterAtomic(t, "Fail")
  /\ UNCHANGED <<env, dirs, cvars, run, pc, pvars, udisk, filesToUpload, doneRound, prev, savedRounds>>

\* uploadMinifiedContent settled.
UploadDone(t, ok) ==
  /\ MainBlocked
  /\ TaskAt(t, {"uploading"})
  /\ Fault("item", IF ok THEN 0 ELSE 1)
  /\ EnterAtomic(t, IF ok THEN "Ok" ELSE "Fail")
  /\ UNCHANGED <<env, dirs, cvars, run, pc, pvars, udisk, filesToUpload, doneRound, prev, savedRounds>>

\* The 10 ms timer of a waiting task fired: the while test again.
TimerFires(t) ==
  /\ MainBlocked
  /\ TaskAt(t, {"waitOk", "waitFail"})
  /\ EnterAtomic(t, IF tasks[t] = "waitOk" THEN "Ok" ELSE "Fail")
  /\ UNCHANGED <<env, dirs, cvars, run, faults, injected, pc, pvars, udisk, filesToUpload, doneRound, prev, savedRounds>>

\* Variant: the task returns and leaves the mutex taken.
ReleaseKeeping(t) ==
  /\ MainBlocked
  /\ TaskAt(t, {"heldOk", "heldFail"})
  /\ uprogress' = uprogress
  /\ tasks' = [tasks EXCEPT ![t] = IF tasks[t] = "heldOk" THEN "resolved" ELSE "rejected"]
  /\ pc' = UAfterSettle(tasks')
  /\ UNCHANGED <<env, dirs, cvars, run, faults, injected, pvars, udisk, filesToUpload, doneRound, prev, savedRounds>>

\* 'await updateFn()' returned: finally { progress.mutex = false }, and the task
\* returns its path or rethrows its error.  The release is a step of its own, so
\* that the events of the other tasks may come while the mutex is held.
Release(t) ==
  /\ MainBlocked
  /\ TaskAt(t, {"heldOk", "heldFail"})
  /\ uprogress' = [uprogress EXCEPT !.mutex = FALSE]
  /\ tasks' = [tasks EXCEPT ![t] = IF tasks[t] = "heldOk" THEN "resolved" ELSE "rejected"]
  /\ pc' = UAfterSettle(tasks')
  /\ UNCHANGED <<env, dirs, cvars, run, faults, injected, pvars, udisk, filesToUpload, doneRound, prev, savedRounds>>

UploadCandidates == {Relative(directoryName, f) : f \in Range(getFilesRecursively)}

UploadDiskIds == IF udisk = NoFile THEN {} ELSE Range(Content(udisk).completedFiles)

UploadEnded ==
  /\ pc \in {"udone", "ufailed"}
  /\ \A t \in DOMAIN tasks : tasks[t] \in {"resolved", "rejected"}

\* ------------------------------------------------------------------ CSV-to-JSON converter

\* Ids of the rows of the CSV file; "" is a row without an id.
RowIds == {"", "x", "y"}

\* progressData.lastProcessedIndex || -1
OrMinusOne(index) == IF index = 0 THEN -1 ELSE index

\* Initialize or load progress: the file is read when it exists; a failed read
\* or parse is caught and the conversion starts fresh.
CLoad(readOk) ==
  /\ pc = "cload"
  /\ readOk \/ cdisk # NoFile
  /\ Fault("load", IF readOk THEN 0 ELSE 1)
  /\ IF cdisk # NoFile /\ readOk
     THEN /\ processedIds' = Content(cdisk).processedIds
          /\ lastProcessedIndex' = OrMinusOne(Content(cdisk).lastProcessedIndex)
     ELSE /\ processedIds' = <<>>
          /\ lastProcessedIndex' = -1
  /\ i' = lastProcessedIndex' + 1
  /\ processedThisRun' = 0
  /\ pc' = "cloop"
  /\ UNCHANGED <<env, dirs, cdisk, failedRows, run, disk, progress, filesToProcess, processed,
                 errors, binSizes, workers, writes, uvars, doneRound, prev, savedRounds>>

\* saveProgress(processedIds, lastProcessedIndex) of the converter.
CSaved(file, ids, index, ok) ==
  Written(file, [processedIds |-> ids, lastProcessedIndex |-> index], ok)

\* if (processedThisRun % 100 === 0 || processedThisRun === 1)
CSaveDue(n) == n % SAVE_EVERY = 0 \/ n = 1

\* One iteration of the loop over the rows: a row without an id or with a
\* processed id is skipped; else the file of the row is written, and after a
\* successful write the progress is updated and saved when due.  A failed
\* write is caught and the loop continues.
CRow(writeOk, saveOk) ==
  /\ pc = "cloop"
  /\ i < Len(rows)
  /\ LET id == rows[i + 1]
         written == id # "" /\ ~Includes(processedIds, id) /\ writeOk
         failed == id # "" /\ ~Includes(processedIds, id) /\ ~writeOk
         saves == written /\ CSaveDue(processedThisRun + 1)
     IN /\ (~writeOk => failed) /\ (~saveOk => saves)
        /\ faults + (IF failed THEN 1 ELSE 0) + (IF saveOk THEN 0 ELSE 1) <= MaxFaults
        /\ faults' = faults + (IF failed THEN 1 ELSE 0) + (IF saveOk THEN 0 ELSE 1)
        /\ injected' = injected \cup (IF failed THEN {"item"} ELSE {})
                                 \cup (IF saveOk THEN {} ELSE {"write"})
        /\ processedIds' = IF written THEN Append(processedIds, id) ELSE processedIds
        /\ lastProcessedIndex' = IF written THEN i ELSE lastProcessedIndex
        /\ processedThisRun' = IF written THEN processedThisRun + 1 ELSE processedThisRun
        /\ failedRows' = IF failed THEN failedRows \cup {i} ELSE failedRows
        /\ cdisk' = IF saves THEN CSaved(cdisk, processedIds', lastProcessedIndex', saveOk)
                    ELSE cdisk
  /\ i' = i + 1
  /\ UNCHANGED <<env, dirs, run, pc, disk, progress, filesToProcess, processed, errors,
                 binSizes, workers, writes, uvars, doneRound, prev, savedRounds>>

\* After the loop: the final progress save.
CFinal(saveOk) ==
  /\ pc = "cloop"
  /\ i >= Len(rows)
  /\ Fault("write", IF saveOk THEN 0 ELSE 1)
  /\ cdisk' = CSaved(cdisk, processedIds, lastProcessedIndex, saveOk)
  /\ pc' = "cdone"
  /\ UNCHANGED <<env, dirs, processedIds, lastProcessedIndex, processedThisRun, failedRows,
                 run, pvars, uvars, doneRound, prev, savedRounds>>

\* The converter ends or is interrupted (SIGINT: process.exit(0)) and is
\* started again on the same CSV file and progress file.
CRestart ==
  /\ prog = "convert"
  /\ run < MaxRuns
  /\ pc # "cload"
  /\ run' = run + 1
  /\ injected' = {}
  /\ pc' = "cload"
  /\ processedIds' = <<>>
  /\ lastProcessedIndex' = -1
  /\ processedThisRun' = 0
  /\ failedRows' = {}
  /\ i' = 0
  /\ UNCHANGED <<env, dirs, cdisk, faults, disk, progress, filesToProcess, processed, errors,
                 binSizes, workers, writes, uvars, doneRound, prev, savedRounds>>

\* ------------------------------------------------------------------ resumption

Candidates == IF prog = "partition" THEN PartitionCandidates ELSE UploadCandidates

\* Ids in the checkpoint file.
DiskIds == IF prog = "partition" THEN PartitionDiskIds ELSE UploadDiskIds

\* Ids in the in-memory completed list.
CompletedIds ==
  IF prog = "partition" THEN Ids(progress)
  ELSE Range(uprogress.completedFiles)

Ended == IF prog = "partition" THEN PartitionEnded ELSE UploadEnded

\* The run has ended normally with every candidate completed and the
\* checkpoint holding what the run completed.
CleanEnd ==
  /\ Ended /\ pc \in {"done", "udone"}
  /\ Candidates \subseteq CompletedIds
  /\ DiskIds = CompletedIds

\* Items of the to-process list that did not succeed in this run: the files whose
\* copy failed in a worker, the batches of the workers that failed as a whole,
\* and the files whose read, parse or upload failed in the uploader.
PartitionFailed ==
  UNION {workers[s].failing \cup
           (IF workers[s].st \in {"failedResolved", "errored", "exited"}
            THEN Range(workers[s].fileBatch) ELSE {}) : s \in DOMAIN workers}

UploadFailed ==
  {RelativeOf(t) : t \in {u \in DOMAIN tasks : tasks[u] \in {"waitFail", "heldFail", "rejected"}}}

Failed == IF prog = "partition" THEN PartitionFailed ELSE UploadFailed

\* Ids of the to-process list.
ToProcessIds ==
  IF prog = "partition" THEN Range(filesToProcess)
  ELSE {Relative(directoryName, f) : f \in Range(filesToUpload)}

\* The process ends or is killed, and the script is started again: a new
\* process, with nothing in memory, on the same directory and checkpoint file.
Restart ==
  /\ run < MaxRuns
  /\ pc \notin {"load", "uload"}
  /\ run' = run + 1
  /\ prev' = [disk |-> DiskIds, completed |-> CompletedIds,
              clean |-> CleanEnd,
              beforeSave |-> BeforeRoundSave,
              earlier |-> IF BeforeRoundSave THEN EarlierRounds ELSE {},
              merged |-> {f \in DOMAIN doneRound : doneRound[f] > 0},
              injected |-> injected,
              notSucceeded |-> Failed \ prev.disk,
              saved |-> savedRounds]
  /\ injected' = {}
  /\ pc' = IF prog = "partition" THEN "load" ELSE "uload"
  /\ progress' = DefaultProgress
  /\ filesToProcess' = <<>>
  /\ i' = 0
  /\ processed' = 0
  /\ errors' = 0
  /\ binSizes' = <<>>
  /\ workers' = <<>>
  /\ writes' = {}
  /\ uprogress' = NoProgress
  /\ filesToUpload' = <<>>
  /\ tasks' = <<>>
  /\ doneRound' = [f \in DOMAIN doneRound |-> 0]
  /\ savedRounds' = {}
  /\ UNCHANGED <<env, dirs, cvars, faults, disk, udisk>>

\* ------------------------------------------------------------------ specification

Starts == {0} \cup {s \in 1..nfiles : s % cfg.B = 0}

\* The files the worker created for startIdx s was given.
BatchOf(s) == IF s \in DOMAIN workers THEN Range(workers[s].fileBatch) ELSE {}

NextPartition ==
  \/ \E readOk \in BOOLEAN : Load(readOk)
  \/ \E ok \in BOOLEAN : CreateBinDirectories(ok)
  \/ Diff
  \/ Spawn
  \/ RoundSave
  \/ Catch
  \/ NextRound
  \/ FinalSave
  \/ CalcBegin
  \/ \E ok \in BOOLEAN : CalcEnd(ok)
  \/ \E s \in Starts : \E failing \in SUBSET BatchOf(s) : WorkerMessage(s, failing)
  \/ \E s \in Starts : WorkerPostsError(s)
  \/ \E s \in Starts : WorkerError(s)
  \/ \E s \in Starts : WorkerExit(s)
  \/ \E w \in writes : \E ok \in BOOLEAN : MainWriteDone(w, ok)
  \/ \E w \in writes : \E ok \in BOOLEAN : HandlerWriteDone(w, ok)

NextUpload ==
  \/ \E readOk \in BOOLEAN : ULoad(readOk)
  \/ UDiff
  \/ UBatch
  \/ \E ok \in BOOLEAN : USave(ok)
  \/ UNextBatch
  \/ \E t \in 1..NumUploadFiles : \E ok \in BOOLEAN : ReadDone(t, ok)
  \/ \E t \in 1..NumUploadFiles : \E ok \in BOOLEAN : UploadDone(t, ok)
  \/ \E t \in 1..NumUploadFiles : TimerFires(t)
  \/ \E t \in 1..NumUploadFiles : Release(t)

Next == NextPartition \/ NextUpload \/ Restart

Spec == Init /\ [][Next]_vars

\* The partition engine over a source directory whose second round has two
\* batches.
InitWide == InitWith("partition", WideFiles, TRUE, NoFile)

NextWide == NextPartition \/ Restart

SpecWide == InitWide /\ [][NextWide]_vars

\* A source directory that also holds a file whose id does not start with two
\* of the chars ("qa6.json") and a file whose id is a dot ("..json").
OddFiles == << <<"q", "a", "6", ".json">>, <<".", ".json">> >>

\* As many well-named files as make the directory hold NumFiles JSON files.
RegularFiles == NumFiles - Len(OddFiles)

InitBins ==
  InitDir("partition", RegularFiles, OddFiles, TRUE, NoFile,
          [B |-> BATCH_SIZE, W |-> MAX_WORKERS])

SpecBins == InitBins /\ [][NextWide]_vars

\* The same directory in an environment without failures: every read, mkdir,
\* copy and write succeeds and every worker posts its results; the process may
\* still be killed and started again.
NextScenario ==
  \/ Load(TRUE)
  \/ CreateBinDirectories(TRUE)
  \/ Diff
  \/ Spawn
  \/ RoundSave
  \/ NextRound
  \/ FinalSave
  \/ CalcBegin
  \/ CalcEnd(TRUE)
  \/ \E s \in Starts : WorkerMessage(s, {})
  \/ \E w \in writes : MainWriteDone(w, TRUE)
  \/ \E w \in writes : HandlerWriteDone(w, TRUE)
  \/ Restart

Scenario == InitWide /\ [][NextScenario]_vars

\* One run of the partition engine without faults for every number of files,
\* batch size and worker count up to the bounds.
InitAssign ==
  \E n \in 0..MaxN : \E b \in 1..MaxB : \E w \in 1..MaxW :
    InitCfg("partition", n, TRUE, NoFile, [B |-> b, W |-> w])

NextAssign ==
  \/ Load(TRUE)
  \/ CreateBinDirectories(TRUE)
  \/ Diff
  \/ Spawn
  \/ RoundSave
  \/ NextRound
  \/ FinalSave
  \/ CalcBegin
  \/ CalcEnd(TRUE)
  \/ \E s \in Starts : WorkerMessage(s, {})
  \/ \E w \in writes : MainWriteDone(w, TRUE)
  \/ \E w \in writes : HandlerWriteDone(w, TRUE)

SpecAssign == InitAssign /\ [][NextAssign]_vars

\* The converter on every CSV file of NumRows rows.
InitConvert ==
  \E r \in [1..NumRows -> RowIds] :
    InitRows("convert", 0, <<>>, r, TRUE, NoFile, [B |-> BATCH_SIZE, W |-> MAX_WORKERS])

NextConvert ==
  \/ \E readOk \in BOOLEAN : CLoad(readOk)
  \/ \E writeOk, saveOk \in BOOLEAN : CRow(writeOk, saveOk)
  \/ \E saveOk \in BOOLEAN : CFinal(saveOk)
  \/ CRestart

SpecConvert == InitConvert /\ [][NextConvert]_vars

\* One run of the partition engine, not killed, under fair scheduling: the
\* event loop runs the main coroutine when it can run, every worker created
\* posts its message or fails, and every writeFile returns.
InitPartition == InitWith("partition", NumFiles, TRUE, NoFile)

FairSpec == InitPartition /\ [][NextPartition]_vars /\ WF_vars(NextPartition)

\* One run of the bulk uploader, not killed, under fair scheduling: the event
\* loop runs the main coroutine when it can run, every read and upload
\* settles, every timer fires and every update function returns.
\* A list without a repeated element.
DupFree(list) == \A j, k \in DOMAIN list : list[j] = list[k] => j = k

\* The checkpoint files an earlier run of the uploader can have left: none, or
\* a list of uploaded paths without a repetition.
UCheckpoints ==
  {NoFile} \cup
  {File([completedFiles |-> list]) :
     list \in {l \in UNION {[1..n -> UploadCandidates] : n \in 0..NumUploadFiles} : DupFree(l)}}

InitUpload == \E d \in UCheckpoints : InitWith("upload", NumFiles, TRUE, d)

FairUpload == InitUpload /\ [][NextUpload]_vars /\ WF_vars(NextUpload)

\* ------------------------------------------------------------------ properties

\* The diff of the current run has been computed.
Diffed == pc \notin {"load", "bins", "diff", "exit1", "uload", "udiff"}

Held == {t \in DOMAIN tasks : tasks[t] \in {"heldOk", "heldFail"}}

Waiting == {t \in DOMAIN tasks : tasks[t] \in {"waitOk", "waitFail"}}

Counted == {t \in DOMAIN tasks : tasks[t] \in {"heldOk", "heldFail", "resolved", "rejected"}}

TasksSettled == \A t \in DOMAIN tasks : tasks[t] \in {"resolved", "rejected"}

\* C1: idempotent resume.  When the previous run ended with every candidate in
\* the saved checkpoint and this run read that checkpoint, this run computes an
\* empty to-process list, creates no worker and no upload task, counts no
\* success, and holds the completed ids the previous run ended with.
IdempotentResume ==
  (run > 1 /\ prev.clean /\ "load" \notin injected /\ pc \notin {"load", "uload"}) =>
     /\ CompletedIds = prev.completed
     /\ workers = <<>> /\ tasks = <<>>
     /\ processed = 0 /\ uprogress.uploaded = 0
     /\ Diffed => filesToProcess = <<>> /\ filesToUpload = <<>>

\* C1 witness: a second run of the partition engine over a fully checkpointed
\* candidate set has ended.
IdempotentResumeWitness ==
  prog = "partition" /\ run > 1 /\ prev.clean /\ "load" \notin injected /\ pc = "done"

\* C2: bounded loss on interruption.  When the previous run was killed after the
\* workers of round K had reported and before the save of round K returned (no
\* checkpoint write had failed), the to-process list of the resumed run, which
\* read the checkpoint, holds no file a round before K had completed, and at
\* most B*W files the killed run had completed.
BoundedLoss ==
  (prog = "partition" /\ run > 1 /\ prev.beforeSave /\ "write" \notin prev.injected
     /\ "load" \notin injected /\ Diffed) =>
     /\ Range(filesToProcess) \cap prev.earlier = {}
     /\ Cardinality(Range(filesToProcess) \cap prev.merged) <= RoundSize

\* C3: partial-failure isolation.  Whatever files of a batch fail in the worker,
\* every other file of the batch has a successful result, and is in the
\* completed list once the results of the worker are merged.
PartialFailureIsolation ==
  \A s \in DOMAIN workers :
    workers[s].st \in {"merging", "done"} =>
      /\ Len(workers[s].results) = Len(workers[s].fileBatch)
      /\ \A k \in DOMAIN workers[s].fileBatch :
           workers[s].fileBatch[k] \notin workers[s].failing =>
             /\ workers[s].results[k].file = workers[s].fileBatch[k]
             /\ workers[s].results[k].success
             /\ workers[s].st = "done" => workers[s].fileBatch[k] \in CompletedIds

\* C3 witness: the results of a batch with a failed and a copied file are merged.
PartialFailureIsolationWitness ==
  \E s \in DOMAIN workers :
    /\ workers[s].st = "done"
    /\ workers[s].failing # {}
    /\ Range(workers[s].fileBatch) \ workers[s].failing # {}

\* C4: item-level errors of the bulk uploader stay local.  When a run has ended
\* (no checkpoint write failed), every file of the to-upload list has been
\* counted as uploaded or failed, and every uploaded file is in the checkpoint.
ItemErrorStaysLocal ==
  (prog = "upload" /\ UploadEnded /\ "write" \notin injected) =>
     /\ uprogress.uploaded + uprogress.failed = uprogress.total
     /\ CompletedIds \subseteq UploadDiskIds

\* C5: mutual exclusion.  At most one task is between taking and releasing the
\* mutex of updateProgressAtomic.
MutualExclusion == Cardinality(Held) <= 1

\* C5 witness: a task holds the mutex while another task waits for it.
MutualExclusionWitness == Held # {} /\ Waiting # {}

\* C6: no lost update.  Every task that has run its update is counted exactly
\* once, as uploaded or as failed; once all tasks have settled the two counters
\* add up to the number of tasks; they never exceed total.
NoLostUpdate ==
  prog = "upload" =>
    /\ uprogress.uploaded + uprogress.failed = Cardinality(Counted)
    /\ uprogress.uploaded + uprogress.failed <= uprogress.total
    /\ TasksSettled =>
         /\ uprogress.uploaded = Cardinality({t \in DOMAIN tasks : tasks[t] = "resolved"})
         /\ uprogress.failed = Cardinality({t \in DOMAIN tasks : tasks[t] = "rejected"})

\* C6 witness: a batch has settled with an uploaded and a failed file.
NoLostUpdateWitness ==
  /\ prog = "upload" /\ tasks # <<>> /\ TasksSettled
  /\ uprogress.uploaded > 0 /\ uprogress.failed > 0

\* C7: monotone progress within a run.  No step of a run removes an id from the
\* in-memory completed list.
MonotoneProgress == [][run' = run => CompletedIds \subseteq CompletedIds']_vars

\* C7 witness: the second round runs after a worker of the first failed, with
\* files completed.
MonotoneProgressWitness ==
  /\ prog = "partition" /\ CurrentRound > 1 /\ CompletedIds # {}
  /\ \E s \in DOMAIN workers : Rejected(workers[s].st)

\* C8: monotone checkpoint across resumptions.  Every checkpoint a later run
\* writes holds every id the checkpoint held when the previous run ended.
MonotoneCheckpoint ==
  [][(run > 1 /\ run' = run /\ DiskIds' # DiskIds) => prev.disk \subseteq DiskIds']_vars

\* C9: worker-level failure accounting.  A step in which a running worker fails
\* as a whole adds the size of its batch to the failure counter and leaves the
\* completed list alone; the exit that follows an 'error' adds nothing.
FatalFailureAccounting ==
  [][\A s \in DOMAIN workers \cap DOMAIN workers' :
       /\ (workers[s].st = "running" /\ workers'[s].st \in {"failedResolved", "errored", "exited"})
            => (errors' = errors + Len(workers[s].fileBatch) /\ CompletedIds' = CompletedIds)
       /\ (workers[s].st = "errored" /\ workers'[s].st = "exited") => errors' = errors]_vars

\* C10: round barrier.  While a worker of a later round exists, every worker of
\* an earlier round has reported its results or failed.
RoundBarrier ==
  \A s, t \in DOMAIN workers : RoundOf(s) < RoundOf(t) => workers[s].st # "running"

\* Workers created and not finished: the thread has neither posted its message
\* nor failed.
Unfinished == {s \in DOMAIN workers : workers[s].st = "running"}

\* Uploads in flight: tasks that have not settled.
InFlight == {t \in DOMAIN tasks : tasks[t] \notin {"resolved", "rejected"}}

\* C11: bounded worker pool.  At most MAX_WORKERS workers are created and not
\* finished, and at most MAX_CONCURRENT_UPLOADS uploads are in flight.
BoundedPool ==
  /\ Cardinality(Unfinished) <= MAX_WORKERS
  /\ Cardinality(InFlight) <= MAX_CONCURRENT_UPLOADS

\* C12: checkpoint save after every round.  While a worker of a round exists,
\* the main coroutine has called ProgressTracker.save after every earlier round.
SaveAfterEveryRound ==
  \A s \in DOMAIN workers : \A r \in 1..(RoundOf(s) - 1) : r \in savedRounds

\* Every worker of round r has failed or has had its results merged.
RoundFinished(r) ==
  \A s \in DOMAIN workers : RoundOf(s) = r => workers[s].st \notin {"running", "merging"}

\* C13: the persisted checkpoint reflects exactly the completed rounds.  Every id
\* in the checkpoint file was in the file when the run started or was merged by
\* a round all of whose workers have finished, and no write of the checkpoint
\* is in flight while a worker has results not yet merged.
CheckpointOfCompletedRounds ==
  prog = "partition" =>
    /\ \A f \in PartitionDiskIds :
         f \in prev.disk \/ (doneRound[f] > 0 /\ RoundFinished(doneRound[f]))
    /\ writes # {} => \A s \in DOMAIN workers : workers[s].st \notin {"running", "merging"}

\* Count of a bin in binSizes (absent: 0).
BinCount(sizes, bin) == IF bin \in DOMAIN sizes THEN sizes[bin] ELSE 0

\* The results worker s had merged in the step: those from where its handler
\* stood before the step up to where it stands after it.
MergedInStep(s) ==
  (IF workers[s].st = "running" THEN 1 ELSE workers[s].k)..(workers'[s].k - 1)

\* C14: effect of one Outcome.  In a step of the message handler of worker s,
\* the successful results it merges add their ids to the completed list, one
\* each to the success counter and to the count of their bin; the failed ones
\* add one each to the failure counter and nothing else.
OutcomeEffect ==
  [][\A s \in DOMAIN workers \cap DOMAIN workers' :
       (workers'[s] # workers[s] /\ workers'[s].st \in {"merging", "done"}) =>
         LET res == workers'[s].results
             ok == {j \in MergedInStep(s) : res[j].success}
             ko == {j \in MergedInStep(s) : ~res[j].success}
         IN /\ CompletedIds' = CompletedIds \cup {res[j].file : j \in ok}
            /\ processed' = processed + Cardinality(ok)
            /\ errors' = errors + Cardinality(ko)
            /\ \A bin \in DOMAIN binSizes \cup DOMAIN binSizes' \cup {res[j].bin : j \in ok} :
                 BinCount(binSizes', bin) =
                   BinCount(binSizes, bin) + Cardinality({j \in ok : res[j].bin = bin})]_vars

\* C14 witness: the handler has merged a failed and a successful result, and a
\* bin holds two files.
OutcomeEffectWitness ==
  /\ processed > 0 /\ errors > 0
  /\ \E s \in DOMAIN workers : workers[s].st = "done" /\ workers[s].failing # {}
  /\ \E bin \in DOMAIN binSizes : binSizes[bin] = 2

\* The diff of the current run has been computed without a throw.
DiffComputed == Diffed /\ (prog = "partition" => ~DiffThrows)

\* C15: retry on the next run.  An item that did not succeed in the previous run
\* (its copy or upload failed, or its worker failed as a whole), and was not in
\* the checkpoint that run started with, is not in the checkpoint that run left
\* and is in the to-process list this run computes.
RetryOnNextRun ==
  run > 1 =>
    \A f \in prev.notSucceeded :
      /\ f \notin prev.disk
      /\ DiffComputed => f \in ToProcessIds

\* C15 witness: the run after one with a failed item has checkpointed files and
\* has computed its to-process list.
RetryOnNextRunWitness ==
  /\ run > 1 /\ prev.notSucceeded # {} /\ prev.disk # {}
  /\ "load" \notin injected /\ DiffComputed

\* The files of the scenario, in the order of the directory listing.
F(n) == FileName(n)

FirstRound == {F(1), F(2), F(3), F(4)}

\* The previous run was killed after its first round had completed and been
\* saved, before it merged a result of its second round.
KilledAfterFirstRound ==
  run > 1 /\ prev.saved = {1} /\ prev.merged = FirstRound /\ prev.disk = FirstRound

AllAssigned ==
  UNION {Range(workers[s].fileBatch) : s \in DOMAIN workers} = Range(filesToProcess)

\* C17: the run continues past worker-level failures and terminates.  A run that
\* enters its round loop reaches its final save, with every round started and
\* every file of the to-process list assigned to a worker, whatever workers
\* fail.
ReachesFinalSave == (pc = "spawn") ~> (pc = "finalsave" /\ AllAssigned)

\* C17 witness: the final save is reached after a worker failed as a whole.
ReachesFinalSaveWitness ==
  /\ pc = "finalsave" /\ AllAssigned
  /\ \E s \in DOMAIN workers : Rejected(workers[s].st)

\* process.exit(1) was called.
ExitedNonZero == pc = "exit1"

\* C18: startup-fatal error.  When the source directory does not exist, no
\* worker is created, no later phase runs (no bin-size calculation, no write of
\* the checkpoint), and a run that has left its start-up has exited non-zero.
StartupFatal ==
  (prog = "partition" /\ ~sourceExists) =>
    /\ workers = <<>>
    /\ writes = {}
    /\ pc \in {"load", "bins", "diff"} \/ ExitedNonZero

\* No checkpoint was there to load, or its read or parse failed in this run.
NothingLoaded(file) == file = NoFile \/ "load" \in injected

\* C19: soft-failing load.  When no checkpoint file exists or its read or parse
\* fails, the record the load returns has an empty completed list, the run is
\* not ended by the load, and its diff gives the full candidate list.  (Up to
\* the first round the checkpoint file is the one the run started with.)
SoftFailingLoad ==
  /\ (prog = "partition" /\ NothingLoaded(disk)) =>
       /\ pc \in {"bins", "diff"} => progress = DefaultProgress
       /\ (pc = "spawn" /\ i = 0) => filesToProcess = jsonFiles
       /\ ExitedNonZero => "mkdir" \in injected
  /\ (prog = "upload" /\ NothingLoaded(udisk)) =>
       /\ pc = "udiff" => uprogress.completedFiles = <<>>
       /\ (pc = "ubatch" /\ i = 0) => filesToUpload = getFilesRecursively
       /\ pc # "ufailed" \/ tasks # <<>>

\* C19 witness: a resumed run whose read of a checkpoint with ids failed starts
\* its first round over all candidates.
SoftFailingLoadWitness ==
  /\ prog = "partition" /\ run > 1 /\ "load" \in injected /\ PartitionDiskIds # {}
  /\ pc = "spawn" /\ i = 0 /\ filesToProcess = jsonFiles

\* The checkpoint file parses and has no processedFiles list.
ListMissingInFile == disk # NoFile /\ NoList(Content(disk))

\* C20: checkpoint field defaults.  A run that loaded a checkpoint file without
\* the processedFiles list holds an empty list for it, and its diff gives the
\* full candidate list, which the run then processes.
FieldDefaults ==
  (prog = "partition" /\ sourceExists /\ ListMissingInFile /\ "load" \notin injected
     /\ Diffed) =>
     /\ ~NoList(progress)
     /\ filesToProcess = jsonFiles
     /\ pc \notin {"calc", "calcio", "calcsaving", "done"}

\* C21: a failed checkpoint write is swallowed.  In the step in which a write
\* fails, a save of the main coroutine (round save, final save, save of
\* calculateBinSizes, saveProgress of the uploader) leaves the in-memory
\* completed list and the counters as they are and the caller goes on where
\* it goes on after a successful save; a failed periodic save of a message
\* handler loses nothing of the list or the counters and the handler goes on
\* with its results.
FailedWrite ==
  /\ faults' = faults + 1
  /\ writes' # writes \/ pc = "usave"

SaveFailureSwallowed ==
  [][FailedWrite =>
       /\ pc = "usave" =>
            /\ uprogress' = uprogress
            /\ pc' = "unext"
       /\ \A w \in writes \ writes' :
            IF w.main
            THEN /\ UNCHANGED <<progress, processed, errors, binSizes>>
                 /\ pc = "saving" => pc' = "next"
                 /\ pc = "finalsaving" => pc' = "calc"
                 /\ pc = "calcsaving" => pc' = "done"
            ELSE /\ Ids(progress) \subseteq Ids(progress')
                 /\ processed' >= processed
                 /\ errors' >= errors
                 /\ workers'[w.owner].st \in {"merging", "done"}
                 /\ pc' # "exit1"]_vars

\* The round save of the last round failed: the file keeps the older
\* checkpoint, the list in memory holds every item, and the run has gone on
\* to the final save.
SaveFailureSwallowedWitness ==
  /\ prog = "partition"
  /\ "write" \in injected
  /\ pc = "finalsave"
  /\ writes = {}
  /\ Ids(progress) = Range(jsonFiles)
  /\ PartitionDiskIds # Ids(progress)
  /\ PartitionDiskIds # {}

\* C22: the bin label of an item is a function of its identifier alone: in
\* every run, for every position of the item in its batch and every content
\* of the checkpoint, the bin of a successful result is the first two
\* characters of the base name of its file.
LabelOf(file) == [k \in 1..Min(2, Len(file) - 1) |-> file[k]]

BatchesOf(k) ==
  {s \in DOMAIN workers : s < k /\ k <= s + Len(workers[s].fileBatch)}

CreatedIn(r) ==
  {s \in DOMAIN workers : (r - 1) * cfg.B * cfg.W <= s /\ s < r * cfg.B * cfg.W}

LoopEnded == pc \in {"finalsave", "finalsaving", "calc", "calcio", "calcsaving", "done"}

BatchAssignment ==
  /\ \A s \in DOMAIN workers :
       /\ Len(workers[s].fileBatch) \in 1..cfg.B
       /\ workers[s].fileBatch =
            SubSeq(filesToProcess, s + 1, s + Len(workers[s].fileBatch))
  /\ \A r \in 1..(Len(filesToProcess) + 1) : Cardinality(CreatedIn(r)) <= cfg.W
  /\ \A k \in 1..Len(filesToProcess) :
       /\ Cardinality(BatchesOf(k)) <= 1
       /\ (k <= i \/ (LoopEnded /\ Len(filesToProcess) > 0)) =>
            Cardinality(BatchesOf(k)) = 1

\* Five files in batches of three with one worker: two rounds of one batch,
\* the second batch partial.
BatchAssignmentWitness ==
  /\ cfg = [B |-> 3, W |-> 1]
  /\ Len(filesToProcess) = 5
  /\ pc = "finalsave"
  /\ DOMAIN workers = {0, 3}
  /\ Len(workers[3].fileBatch) = 2

\* C24: one Outcome per item, in assigned order.  The result list a worker
\* posted has the length of its batch, its k-th result names the k-th file of
\* the batch, and it is a failure exactly when the copy of that file failed,
\* for every batch and every set of failing files.
OneOutcomePerItem ==
  \A s \in DOMAIN workers :
    workers[s].results # <<>> =>
      /\ DOMAIN workers[s].results = DOMAIN workers[s].fileBatch
      /\ \A k \in DOMAIN workers[s].fileBatch :
           /\ workers[s].results[k].file = workers[s].fileBatch[k]
           /\ workers[s].results[k].success = (workers[s].fileBatch[k] \notin workers[s].failing)

\* A worker posted a failed result for the first file of its batch and a
\* successful one for the second.
OneOutcomePerItemWitness ==
  \E s \in DOMAIN workers :
    /\ Len(workers[s].fileBatch) = 2
    /\ workers[s].failing = {workers[s].fileBatch[1]}
    /\ Len(workers[s].results) = 2
    /\ ~workers[s].results[1].success
    /\ workers[s].results[2].success
    /\ workers[s].results[2].file = workers[s].fileBatch[2]

\* C25: every Outcome is consumed exactly once.  The results the message
\* handlers have gone through, of all workers and in any interleaving, also of
\* workers whose round was abandoned, are counted once each: the success
\* counter and the bin counts are the numbers of consumed successes, their
\* files are the part of the to-process list in the completed list, and the
\* failure counter is the number of consumed failures plus what the handlers
\* of failed workers added (the batch size for a posted error or an 'error'
\* event, nothing for an exit alone).  Every checkpoint write that is started writes the
\* whole completed list of that moment, late successes included.
Consumed ==
  {<<s, j>> \in (DOMAIN workers) \X (1..Len(filesToProcess)) :
     /\ workers[s].st \in {"merging", "done"}
     /\ j < workers[s].k}

ConsumedOk == {c \in Consumed : workers[c[1]].results[c[2]].success}

FailedBatches(sts) == {s \in DOMAIN workers : workers[s].st \in sts}

RECURSIVE SumLen(_)
SumLen(S) ==
  IF S = {} THEN 0
  ELSE LET s == CHOOSE x \in S : TRUE IN Len(workers[s].fileBatch) + SumLen(S \ {s})

ConsumedOnceState ==
  (prog = "partition" /\ Diffed) =>
     /\ processed = Cardinality(ConsumedOk)
     /\ errors >= Cardinality(Consumed \ ConsumedOk)
                    + SumLen(FailedBatches({"failedResolved", "errored"}))
     /\ errors <= Cardinality(Consumed \ ConsumedOk)
                    + SumLen(FailedBatches({"failedResolved", "errored", "exited"}))
     /\ Ids(progress) \cap Range(filesToProcess) =
          {workers[c[1]].results[c[2]].file : c \in ConsumedOk}
     /\ \A bin \in DOMAIN binSizes \cup {workers[c[1]].results[c[2]].bin : c \in ConsumedOk} :
          BinCount(binSizes, bin) =
            Cardinality({c \in ConsumedOk : workers[c[1]].results[c[2]].bin = bin})

ConsumedOnce ==
  /\ []ConsumedOnceState
  /\ [][\A w \in writes' \ writes : Ids(w.snap) = Ids(progress')]_vars

\* The results of a worker were merged after its round had been abandoned,
\* and a checkpoint with its successes has been written.
ConsumedOnceWitness ==
  \E s \in DOMAIN workers :
    /\ workers[s].late
    /\ workers[s].st = "done"
    /\ Range(workers[s].fileBatch) \subseteq PartitionDiskIds
    /\ \E t \in DOMAIN workers : RoundOf(t) = RoundOf(s) /\ Rejected(workers[t].st)

\* C26: bins are materialized before any work.  Whenever a worker exists, the
\* directory of every two-letter prefix over the chars exists, and the bin of
\* every successful result is one of these prefixes.
BinsMaterialized ==
  /\ workers # <<>> => AllBins \subseteq dirs
  /\ \A s \in DOMAIN workers :
       \A k \in DOMAIN workers[s].results :
         workers[s].results[k].success => workers[s].results[k].bin \in AllBins

\* C27: persistence outside the lock.  In the bulk uploader the checkpoint is
\* written only by the save after a batch: in that step the mutex is free, no
\* task holds or waits for it, every task of the batch has resolved, and no
\* save has been made for this batch before (one write per batch, none per
\* item).
SaveOutsideLock ==
  [][(prog = "upload" /\ run' = run /\ (udisk' # udisk \/ savedRounds' # savedRounds)) =>
       /\ pc = "usave"
       /\ ~uprogress.mutex
       /\ Held = {} /\ Waiting = {}
       /\ \A t \in BatchTasks(i, Len(filesToUpload)) : tasks[t] = "resolved"
       /\ UBatchOf(i) \notin savedRounds
       /\ uprogress' = uprogress]_vars

\* Both batches of a run have been saved, each once, and the file holds the
\* three uploaded paths.
SaveOutsideLockWitness ==
  /\ prog = "upload"
  /\ run = 1
  /\ pc = "udone"
  /\ savedRounds = {1, 2}
  /\ Cardinality(UploadDiskIds) = NumUploadFiles

\* C28: resume of the CSV-to-JSON converter.  In every run, every row the
\* loop has passed that has an id which is not in processedIds has been
\* written in this run or its write has failed in this run: a resumed run
\* skips no row that has a valid id and is not in processedIds.
ConverterResume ==
  (prog = "convert" /\ pc \in {"cloop", "cdone"}) =>
     \A k \in 0..(Len(rows) - 1) :
       (k < i /\ rows[k + 1] # "" /\ ~Includes(processedIds, rows[k + 1])) =>
          k \in failedRows

NoDuplicateId ==
  /\ ~NoList(progress) => DupFree(progress.processedFiles)
  /\ (disk # NoFile /\ ~NoList(Content(disk))) => DupFree(Content(disk).processedFiles)
  /\ DupFree(uprogress.completedFiles)
  /\ udisk # NoFile => DupFree(Content(udisk).completedFiles)

\* A resumed partition run has added the remaining files to the list it
\* loaded from the checkpoint of the first run.
NoDuplicateIdWitness ==
  /\ prog = "partition"
  /\ run > 1
  /\ prev.disk # {}
  /\ "load" \notin injected
  /\ Len(filesToProcess) > 0
  /\ ~NoList(progress)
  /\ Len(progress.processedFiles) = NumFiles

\* C31: counter consistency in the partition engine.  Between the steps of the
\* message handlers (a handler merges a result without a break), the sum of
\* all bin counts equals the success counter, and the success counter equals
\* the number of entries added to the completed list since the checkpoint was
\* loaded, that is, the entries that name a file of the to-process list.
RECURSIVE SumBins(_)
SumBins(sizes) ==
  IF DOMAIN sizes = {} THEN 0
  ELSE LET bin == CHOOSE b \in DOMAIN sizes : TRUE
       IN sizes[bin] + SumBins([b \in DOMAIN sizes \ {bin} |-> sizes[b]])

AddedSinceLoad ==
  IF NoList(progress) THEN 0
  ELSE Cardinality({k \in DOMAIN progress.processedFiles :
                      progress.processedFiles[k] \in Range(filesToProcess)})

CounterConsistency ==
  (prog = "partition" /\ Diffed) =>
     /\ SumBins(binSizes) = processed
     /\ processed = AddedSinceLoad

\* A resumed run that loaded a checkpoint with entries has merged successes
\* into two bins.
CounterConsistencyWitness ==
  /\ prog = "partition"
  /\ run > 1
  /\ Diffed
  /\ ~NoList(progress)
  /\ processed >= 2
  /\ Len(progress.processedFiles) > processed
  /\ Cardinality(DOMAIN binSizes) >= 2

====
